---- MODULE Spec2Model ----
(***************************************************************************)
(* Shared Notes (src/app.py): a SQLite store with a notes table and a      *)
(* tokens table, editor sessions that save a note and generate share       *)
(* tokens, and viewer pages that display a note when the presented token   *)
(* is accepted.  Every Streamlit session runs the script in its own        *)
(* thread against the one module-level connection, so the steps of two     *)
(* sessions interleave between database statements.                        *)
(***************************************************************************)
EXTENDS Integers, Sequences, FiniteSets, TLC

\* ------------------------------------------------------------------ bounds
\* Token values the generator can produce: 1..NumTokens.
NumTokens == 4
\* Requests served in one behaviour: Save and Generate presses, viewer runs.
MaxOps == 4

\* --------------------------------------------------------- program values
\* len(existing) >= 3
Cap == 3
\* query.get("token", [None])[0] when the URL carries no token
NoToken == 0
\* query.get("id", [None])[0] when the URL carries no id
NoId == "none"

NoteIds == {"n1", "n2"}
Tokens == 1..NumTokens
\* What an author types into the title and the note box.
Drafts == {[title |-> "", content |-> "x"], [title |-> "A", content |-> "y"]}
Editors == {"e1", "e2"}
Viewers == {"v1"}

\* What the viewer page renders.
NotFoundMsg == "Note not found."
InvalidTokenMsg == "Invalid or missing token. You need a valid token to view this note."
NoIdMsg == "No note ID provided in URL."
ShownMsg == "shown"
NoMsg == "-"

VARIABLES
    notes,      \* rows of table notes: [id, title, content, updated_at]
    tokens,     \* rows of table tokens in rowid order: [token, note_id, created_at]
    clock,      \* the last value time.time() returned
    editor,     \* per editor session: session state and the position of its script run
    viewer,     \* per viewer page: its URL and what the last run rendered
    lastSave,   \* history: per note id, the save_note call that wrote last
    ops         \* history: requests served so far

vars == <<notes, tokens, clock, editor, viewer, lastSave, ops>>

\* ------------------------------------------------------------- DB helpers
\* get_note's None
NoNote == [id |-> NoId, title |-> "", content |-> "", updated_at |-> 0]

\* Variants of the statement used to test the properties below:
\* a table without the primary key (the old row stays beside the new one),
InsertBesideOld(rows, row) == rows \cup {row}

\* INSERT OR IGNORE (the old row wins),
InsertOrIgnore(rows, row) ==
    IF \E r \in rows : r.id = row.id THEN rows ELSE rows \cup {row}

\* and an UPDATE of the content and timestamp alone (the old title stays).
ReplaceKeepingTitle(rows, row) ==
    {r \in rows : r.id # row.id}
      \cup {[row EXCEPT !.title = r.title] : r \in {x \in rows : x.id = row.id}}
      \cup (IF \E r \in rows : r.id = row.id THEN {} ELSE {row})

\* and a replacement that deletes the row with the same primary key and
\* leaves the insertion of the new row to the next save.
DeleteOnConflict(rows, row) ==
    IF \E r \in rows : r.id = row.id
      THEN {r \in rows : r.id # row.id}
      ELSE rows \cup {row}

\* INSERT OR REPLACE INTO notes: the row with the same primary key is deleted,
\* the new row inserted.
InsertOrReplace(rows, row) == {r \in rows : r.id # row.id} \cup {row}

\* SELECT ... FROM notes WHERE id = ?; fetchone()
get_note(note_id) ==
    IF \E r \in notes : r.id = note_id
      THEN CHOOSE r \in notes : r.id = note_id
      ELSE NoNote

note_exists(note_id) == get_note(note_id) # NoNote

\* SELECT token, created_at FROM tokens WHERE note_id = ?  (rowid order)
RECURSIVE SelectTokens(_, _)
SelectTokens(rows, note_id) ==
    IF rows = <<>> THEN <<>>
    ELSE LET rest == SelectTokens(Tail(rows), note_id)
             h == Head(rows)
         IN IF h.note_id = note_id
              THEN <<[token |-> h.token, created_at |-> h.created_at]>> \o rest
              ELSE rest

\* Variant used to test the properties below: the SELECT without its WHERE in
\* get_tokens_for_note itself, so that the cap counts the tokens of all notes.
get_tokens_any_note(note_id) ==
    [i \in 1..Len(tokens) |->
       [token |-> tokens[i].token, created_at |-> tokens[i].created_at]]

get_tokens_for_note(note_id) == SelectTokens(tokens, note_id)

\* Variant used to test the properties below: the SELECT without its WHERE.
TokenListAnyNote(note_id) == {tokens[i].token : i \in 1..Len(tokens)}

\* tokens = [t for (t,_) in get_tokens_for_note(note_id_q)]
TokenList(note_id) ==
    LET ts == get_tokens_for_note(note_id)
    IN {ts[i].token : i \in 1..Len(ts)}

\* Variant used to test the properties below: a tokens table without the
\* primary key, where no INSERT is refused.
TokenStoredUnchecked(t) == FALSE

\* token TEXT PRIMARY KEY: the INSERT raises IntegrityError on a stored value
TokenStored(t) == \E i \in 1..Len(tokens) : tokens[i].token = t

\* st.subheader(note["title"] or "Untitled")
DisplayTitle(title) == IF title = "" THEN "Untitled" ELSE title

\* ------------------------------------------------------------------- Init
EditorInit ==
    [editing_id |-> NoId, pc |-> "new", title |-> "", content |-> "",
     before |-> 0, now |-> 0, tok |-> NoToken, outcome |-> "none",
     foreign_q |-> NoId]

ViewerInit ==
    [open |-> FALSE, id |-> NoId, token |-> NoToken, msg |-> NoMsg,
     title |-> "", content |-> "", prev |-> NoMsg, fresh |-> FALSE]

NeverSaved ==
    [saved |-> FALSE, title |-> "", content |-> "", now |-> 0, before |-> 0,
     rows |-> 0]

Init ==
    /\ notes = {}
    /\ tokens = <<>>
    /\ clock = 0
    /\ editor = [s \in Editors |-> EditorInit]
    /\ viewer = [v \in Viewers |-> ViewerInit]
    /\ lastSave = [n \in NoteIds |-> NeverSaved]
    /\ ops = 0

\* ------------------------------------------------------ generated values
\* Token strings are opaque and only compared for equality, so a value that has
\* appeared nowhere yet stands for every such value: a token drawn by uuid4 or
\* typed into a viewer URL is a value already seen (a collision, a guess) or the
\* least value not seen yet.
Seen ==
    {tokens[i].token : i \in 1..Len(tokens)}
      \cup {editor[e].tok : e \in Editors}
      \cup {viewer[v].token : v \in Viewers}

SomeToken(t) == t \in Tokens /\ \A u \in Tokens : u < t => u \in Seen

\* Note ids are opaque in the same way (uuid4 again, or whatever the URL
\* carries): "n1" is the first id to appear anywhere.
SeenIds ==
    {editor[e].editing_id : e \in Editors} \cup {viewer[v].id : v \in Viewers}

SomeNote(id) == id \in NoteIds /\ (id = "n1" \/ "n1" \in SeenIds)

\* time.time(): the clock has sub-microsecond resolution and two reads are at
\* least a database statement or a thread switch apart, so every read returns
\* a later value than the read before (the system clock is not set back).
\* Only the order of timestamps is observed: the n-th read returns n.
time_time == clock + 1

\* ---------------------------------------------------------- editor branch
Idle(s) == editor[s].pc = "idle"

\* Sessions are named in the order of their first script run.
Earlier(s) == IF s = "e2" THEN {"e1"} ELSE {}

\* history: a write to the store ends the freshness of what viewers rendered
Stale == [v \in Viewers |-> [viewer[v] EXCEPT !.fresh = FALSE]]

\* Every run of the editor script, with note_id_q the id parameter of the
\* request and uuid the value uuid4 would give:
\* if "editing_id" not in st.session_state:
\*     st.session_state.editing_id = note_id_q or str(uuid.uuid4())[:8]
\* note_id = st.session_state.editing_id
\* Variant used to test the properties below: the id parameter of the request
\* is preferred to the id kept in the session.
editing_id_from_query(s, note_id_q, uuid) ==
    IF note_id_q # NoId THEN note_id_q
    ELSE IF editor[s].editing_id = NoId THEN uuid
    ELSE editor[s].editing_id

editing_id(s, note_id_q, uuid) ==
    IF editor[s].editing_id = NoId
      THEN IF note_id_q # NoId THEN note_id_q ELSE uuid
      ELSE editor[s].editing_id

\* The id parameter a request may carry: none, or a note id.
SomeQuery(q) == q = NoId \/ SomeNote(q)

\* The page keeps the URL it was opened on: no id parameter, or the id the
\* session took from it.
SameUrl(s, q) == q \in {NoId, editor[s].editing_id}

\* history: the id parameter of the session's latest button request when it
\* names another note than the session's
ForeignQuery(s, q) == IF SameUrl(s, q) THEN NoId ELSE q

\* The first run of a session
StartSession(s, q, g) ==
    /\ editor[s].pc = "new"
    /\ \A e \in Earlier(s) : editor[e].pc # "new"
    /\ SomeQuery(q)
    /\ SomeNote(g)
    /\ editor' = [editor EXCEPT ![s].editing_id = editing_id(s, q, g),
                                ![s].pc = "idle"]
    /\ UNCHANGED <<notes, tokens, clock, viewer, lastSave, ops>>

\* "Save / Update" pressed: save_note reads now = time.time()
SaveBegin(s, d, q) ==
    /\ Idle(s)
    /\ SomeQuery(q)
    /\ ops < MaxOps
    /\ ops' = ops + 1
    /\ clock' = time_time
    /\ editor' = [editor EXCEPT ![s].editing_id = editing_id(s, q, NoId),
                                ![s].foreign_q = ForeignQuery(s, q),
                                ![s].pc = "save", ![s].title = d.title,
                                ![s].content = d.content,
                                ![s].before = clock, ![s].now = time_time]
    /\ UNCHANGED <<notes, tokens, viewer, lastSave>>

\* save_note's INSERT OR REPLACE and commit
SaveRow(s) ==
    [id |-> editor[s].editing_id, title |-> editor[s].title,
     content |-> editor[s].content, updated_at |-> editor[s].now]

\* Variant used to test the properties below: replacing the notes row deletes
\* the token rows that reference it (foreign key enforced with a cascade).
SaveCommitCascade(s) ==
    /\ editor[s].pc = "save"
    /\ notes' = InsertOrReplace(notes, SaveRow(s))
    /\ tokens' = IF get_note(editor[s].editing_id) = NoNote THEN tokens
                 ELSE SelectSeq(tokens,
                                LAMBDA r : r.note_id # editor[s].editing_id)
    /\ lastSave' = [lastSave EXCEPT ![editor[s].editing_id] =
                      [saved |-> TRUE, title |-> editor[s].title,
                       content |-> editor[s].content, now |-> editor[s].now,
                       before |-> editor[s].before, rows |-> Len(tokens)]]
    /\ editor' = [editor EXCEPT ![s].pc = "idle", ![s].outcome = "saved",
                                ![s].title = "", ![s].content = "",
                                ![s].before = 0, ![s].now = 0]
    /\ viewer' = Stale
    /\ UNCHANGED <<clock, ops>>

SaveCommit(s) ==
    /\ editor[s].pc = "save"
    /\ notes' = InsertOrReplace(notes, SaveRow(s))
    /\ lastSave' = [lastSave EXCEPT ![editor[s].editing_id] =
                      [saved |-> TRUE, title |-> editor[s].title,
                       content |-> editor[s].content, now |-> editor[s].now,
                       before |-> editor[s].before, rows |-> Len(tokens)]]
    /\ editor' = [editor EXCEPT ![s].pc = "idle", ![s].outcome = "saved",
                                ![s].title = "", ![s].content = "",
                                ![s].before = 0, ![s].now = 0]
    /\ viewer' = Stale
    /\ UNCHANGED <<tokens, clock, ops>>

\* "Generate a share token" pressed: existing = get_tokens_for_note(note_id);
\* len(existing) >= 3 warns, otherwise create_token is called
CapReached(existing) == Len(existing) >= Cap

GenCheck(s, q) ==
    /\ Idle(s)
    /\ SomeQuery(q)
    /\ ops < MaxOps
    /\ ops' = ops + 1
    /\ LET note_id == editing_id(s, q, NoId)
       IN IF CapReached(get_tokens_for_note(note_id))
            THEN editor' = [editor EXCEPT ![s].editing_id = note_id,
                                          ![s].foreign_q = ForeignQuery(s, q),
                                          ![s].outcome = "cap"]
            ELSE editor' = [editor EXCEPT ![s].editing_id = note_id,
                                          ![s].foreign_q = ForeignQuery(s, q),
                                          ![s].pc = "gen"]
    /\ UNCHANGED <<notes, tokens, clock, viewer, lastSave>>

\* create_token: t = str(uuid.uuid4())[:8]; now = time.time()
GenStamp(s, t) ==
    /\ editor[s].pc = "gen"
    /\ SomeToken(t)
    /\ clock' = time_time
    /\ editor' = [editor EXCEPT ![s].pc = "insert", ![s].tok = t,
                                ![s].now = time_time]
    /\ UNCHANGED <<notes, tokens, viewer, lastSave, ops>>

\* create_token: INSERT INTO tokens ...; commit.  A stored token value raises
\* IntegrityError out of the script run and nothing is inserted.
TokenRow(s) ==
    [token |-> editor[s].tok, note_id |-> editor[s].editing_id,
     created_at |-> editor[s].now]

\* Variant used to test the properties below: create_token first makes sure
\* the note exists (INSERT OR IGNORE INTO notes of an empty note).
GenInsertCreatingNote(s) ==
    /\ editor[s].pc = "insert"
    /\ IF TokenStored(editor[s].tok)
         THEN /\ tokens' = tokens
              /\ notes' = notes
              /\ viewer' = viewer
              /\ editor' = [editor EXCEPT ![s].pc = "idle", ![s].outcome = "fault",
                                          ![s].tok = NoToken, ![s].now = 0]
         ELSE /\ tokens' = Append(tokens, TokenRow(s))
              /\ notes' = IF note_exists(editor[s].editing_id) THEN notes
                          ELSE notes \cup {[id |-> editor[s].editing_id,
                                            title |-> "", content |-> "",
                                            updated_at |-> editor[s].now]}
              /\ viewer' = Stale
              /\ editor' = [editor EXCEPT ![s].pc = "idle", ![s].outcome = "created",
                                          ![s].tok = NoToken, ![s].now = 0]
    /\ UNCHANGED <<clock, lastSave, ops>>

GenInsert(s) ==
    /\ editor[s].pc = "insert"
    /\ IF TokenStored(editor[s].tok)
         THEN /\ tokens' = tokens
              /\ viewer' = viewer
              /\ editor' = [editor EXCEPT ![s].pc = "idle", ![s].outcome = "fault",
                                          ![s].tok = NoToken, ![s].now = 0]
         ELSE /\ tokens' = Append(tokens, TokenRow(s))
              /\ viewer' = Stale
              /\ editor' = [editor EXCEPT ![s].pc = "idle", ![s].outcome = "created",
                                          ![s].tok = NoToken, ![s].now = 0]
    /\ UNCHANGED <<notes, clock, lastSave, ops>>

\* ---------------------------------------------------------- viewer branch
\* if tokens and token_q not in tokens
TokenRejected(toks, token_q) == toks # {} /\ token_q \notin toks

\* Variant used to test the properties below: the token check without the
\* "if not note" branch before it.
ViewResultUnchecked(note_id_q, token_q) ==
    LET note == get_note(note_id_q)
        blank == [msg |-> NoMsg, title |-> "", content |-> ""]
    IN IF note_id_q = NoId THEN [blank EXCEPT !.msg = NoIdMsg]
       ELSE IF TokenRejected(TokenList(note_id_q), token_q)
              THEN [blank EXCEPT !.msg = InvalidTokenMsg]
       ELSE [msg |-> ShownMsg, title |-> DisplayTitle(note.title),
             content |-> note.content]

ViewResult(note_id_q, token_q) ==
    LET note == get_note(note_id_q)
        blank == [msg |-> NoMsg, title |-> "", content |-> ""]
    IN IF note_id_q = NoId THEN [blank EXCEPT !.msg = NoIdMsg]
       ELSE IF note = NoNote THEN [blank EXCEPT !.msg = NotFoundMsg]
       ELSE IF TokenRejected(TokenList(note_id_q), token_q)
              THEN [blank EXCEPT !.msg = InvalidTokenMsg]
       ELSE [msg |-> ShownMsg, title |-> DisplayTitle(note.title),
             content |-> note.content]

\* Variant used to test the properties below: a page that was shown the note
\* keeps its access and skips the token check.
ViewNoteCached(v, note_id_q, token_q) ==
    /\ IF viewer[v].open
         THEN note_id_q = viewer[v].id /\ token_q = viewer[v].token
         ELSE /\ note_id_q = NoId \/ SomeNote(note_id_q)
              /\ token_q = NoToken \/ SomeToken(token_q)
    /\ ops < MaxOps
    /\ ops' = ops + 1
    /\ LET note == get_note(note_id_q)
           r == IF viewer[v].msg = ShownMsg
                  THEN [msg |-> ShownMsg, title |-> DisplayTitle(note.title),
                        content |-> note.content]
                  ELSE ViewResult(note_id_q, token_q)
       IN viewer' = [viewer EXCEPT ![v].open = TRUE, ![v].id = note_id_q,
                                   ![v].token = token_q,
                                   ![v].msg = r.msg, ![v].title = r.title,
                                   ![v].content = r.content,
                                   ![v].prev = viewer[v].msg,
                                   ![v].fresh = TRUE]
    /\ UNCHANGED <<notes, tokens, clock, editor, lastSave>>

\* Variant used to test the properties below: a share link that works once,
\* the viewer deleting the token row it accepted.
ViewNoteOnce(v, note_id_q, token_q) ==
    /\ IF viewer[v].open
         THEN note_id_q = viewer[v].id /\ token_q = viewer[v].token
         ELSE /\ note_id_q = NoId \/ SomeNote(note_id_q)
              /\ token_q = NoToken \/ SomeToken(token_q)
    /\ ops < MaxOps
    /\ ops' = ops + 1
    /\ LET r == ViewResult(note_id_q, token_q)
       IN /\ viewer' = [viewer EXCEPT ![v].open = TRUE, ![v].id = note_id_q,
                                      ![v].token = token_q,
                                      ![v].msg = r.msg, ![v].title = r.title,
                                      ![v].content = r.content,
                                      ![v].prev = viewer[v].msg,
                                      ![v].fresh = TRUE]
          /\ tokens' = IF r.msg = ShownMsg
                         THEN SelectSeq(tokens, LAMBDA t : t.token # token_q)
                         ELSE tokens
    /\ UNCHANGED <<notes, clock, editor, lastSave>>

\* One run of the viewer script.  The page is opened on a URL
\* ?view=viewer&id=..&token=..; every refresh re-runs the script on the same
\* parameters (st.experimental_set_query_params(view="viewer", id=note_id_q,
\* token=token_q, ...)).
ViewNote(v, note_id_q, token_q) ==
    /\ IF viewer[v].open
         THEN note_id_q = viewer[v].id /\ token_q = viewer[v].token
         ELSE /\ note_id_q = NoId \/ SomeNote(note_id_q)
              /\ token_q = NoToken \/ SomeToken(token_q)
    /\ ops < MaxOps
    /\ ops' = ops + 1
    /\ LET r == ViewResult(note_id_q, token_q)
       IN viewer' = [viewer EXCEPT ![v].open = TRUE, ![v].id = note_id_q,
                                   ![v].token = token_q,
                                   ![v].msg = r.msg, ![v].title = r.title,
                                   ![v].content = r.content,
                                   ![v].prev = viewer[v].msg,
                                   ![v].fresh = TRUE]
    /\ UNCHANGED <<notes, tokens, clock, editor, lastSave>>

\* ------------------------------------------------------------ next states
EditorBegin ==
    \E s \in Editors :
        \/ \E q \in NoteIds \cup {NoId}, g \in NoteIds : StartSession(s, q, g)
        \/ \E d \in Drafts, q \in NoteIds \cup {NoId} :
               SameUrl(s, q) /\ SaveBegin(s, d, q)
        \/ \E q \in NoteIds \cup {NoId} : SameUrl(s, q) /\ GenCheck(s, q)

EditorStep ==
    \E s \in Editors :
        \/ SaveCommit(s)
        \/ \E t \in Tokens : GenStamp(s, t)
        \/ GenInsert(s)

ViewerStep ==
    \E v \in Viewers, id \in NoteIds \cup {NoId}, tok \in Tokens \cup {NoToken} :
        ViewNote(v, id, tok)

Next == EditorBegin \/ EditorStep \/ ViewerStep

Spec == Init /\ [][Next]_vars

\* Requests served one after another: a script run starts only when no other
\* session is in the middle of one.
Quiet == \A s \in Editors : editor[s].pc \in {"new", "idle"}

NextSeq ==
    \/ \E s \in Editors, q \in NoteIds \cup {NoId}, g \in NoteIds :
           Quiet /\ StartSession(s, q, g)
    \/ \E s \in Editors, d \in Drafts, q \in NoteIds \cup {NoId} :
           Quiet /\ SameUrl(s, q) /\ SaveBegin(s, d, q)
    \/ \E s \in Editors, q \in NoteIds \cup {NoId} :
           Quiet /\ SameUrl(s, q) /\ GenCheck(s, q)
    \/ \E v \in Viewers, id \in NoteIds \cup {NoId}, tok \in Tokens \cup {NoToken} :
           Quiet /\ ViewNote(v, id, tok)
    \/ EditorStep

SpecSeq == Init /\ [][NextSeq]_vars

\* Requests served one after another, where the request of a button press may
\* carry any id parameter, also one that names another note than the session's.
NextUrl ==
    \/ \E s \in Editors, q \in NoteIds \cup {NoId}, g \in NoteIds :
           Quiet /\ StartSession(s, q, g)
    \/ \E s \in Editors, d \in Drafts, q \in NoteIds \cup {NoId} :
           Quiet /\ SaveBegin(s, d, q)
    \/ \E s \in Editors, q \in NoteIds \cup {NoId} : Quiet /\ GenCheck(s, q)
    \/ \E v \in Viewers, id \in NoteIds \cup {NoId}, tok \in Tokens \cup {NoToken} :
           Quiet /\ ViewNote(v, id, tok)
    \/ EditorStep

SpecUrl == Init /\ [][NextUrl]_vars

\* ------------------------------------------------------------- properties
\* Rows of the two tables, read straight from the tables.
RowsOf(id) == {r \in notes : r.id = id}

TokenRowsOf(id) == {i \in 1..Len(tokens) : tokens[i].note_id = id}

StoredFor(t, id) == \E i \in TokenRowsOf(id) : tokens[i].token = t

\* A step of a token generation by session s: the cap check of a Generate
\* request, the draw of the token value and timestamp, the INSERT.  The first
\* conjunct of a line tells the step by the positions of the run before and
\* after it.
GenerateStep(s) ==
    \/ /\ Idle(s) /\ (editor'[s].pc = "gen" \/ editor'[s].outcome = "cap")
       /\ \E q \in NoteIds \cup {NoId} : GenCheck(s, q)
    \/ /\ editor[s].pc = "gen" /\ editor'[s].pc = "insert"
       /\ \E t \in Tokens : GenStamp(s, t)
    \/ GenInsert(s)

\* The viewer page v shows the result of a run on the store as it is now.
Current(v) == viewer[v].open /\ viewer[v].fresh /\ viewer[v].id # NoId

\* C1: however the Generate requests of several editor sessions interleave,
\* no note ever has more than 3 token rows.
C1_CapUnderRace == \A id \in NoteIds : Cardinality(TokenRowsOf(id)) <= Cap

\* C2: with requests served one after another, a Generate request on a note
\* with 3 tokens is refused with the cap warning and leaves the tokens table as
\* it was, and a Generate request on a note with fewer than 3 tokens adds
\* exactly one token row for that note.
C2_SequentialCap ==
    [][\A s \in Editors :
         LET id == editor[s].editing_id
             n == Cardinality(TokenRowsOf(id))
         IN /\ ((\E q \in NoteIds \cup {NoId} : GenCheck(s, q)) /\ n >= Cap) =>
                  /\ editor'[s].outcome = "cap"
                  /\ editor'[s].pc = "idle"
                  /\ tokens' = tokens
            /\ ((\E q \in NoteIds \cup {NoId} : GenCheck(s, q)) /\ n < Cap) => editor'[s].pc = "gen"
            /\ GenInsert(s) =>
                  /\ Cardinality(TokenRowsOf(id))' = n + 1
                  /\ editor'[s].outcome = "created"
      ]_vars

\* C3: a viewer run on an existing note shows the note exactly when the note
\* has no token rows or the presented token is stored for that same note id;
\* what it shows is the stored content whatever token was presented.
C3_ShownIffAuthorized ==
    \A v \in Viewers :
        (Current(v) /\ RowsOf(viewer[v].id) # {}) =>
            /\ viewer[v].msg = ShownMsg <=>
                  (TokenRowsOf(viewer[v].id) = {}
                     \/ StoredFor(viewer[v].token, viewer[v].id))
            /\ viewer[v].msg # ShownMsg => viewer[v].msg = InvalidTokenMsg
            /\ viewer[v].msg = ShownMsg =>
                  \A r \in RowsOf(viewer[v].id) : viewer[v].content = r.content

\* A token issued for another note is presented for a note that has tokens,
\* and is rejected.
C3_Witness ==
    \E v \in Viewers :
        /\ Current(v) /\ RowsOf(viewer[v].id) # {}
        /\ TokenRowsOf(viewer[v].id) # {}
        /\ \E id \in NoteIds \ {viewer[v].id} : StoredFor(viewer[v].token, id)
        /\ viewer[v].msg = InvalidTokenMsg

\* C4: a refused viewer gets the same rejection whether the note id has no
\* record or the note exists and the token is wrong or missing.
Refused(m) == m \in {NotFoundMsg, InvalidTokenMsg}

C4_SameRejection ==
    \A v \in Viewers :
        (Refused(viewer[v].prev) /\ Refused(viewer[v].msg)) =>
            viewer[v].prev = viewer[v].msg

\* C5: a viewer run for a note id with no note row ends in the not-found
\* rejection for every presented token, a token stored for that id included.
C5_NotFound ==
    \A v \in Viewers :
        (Current(v) /\ RowsOf(viewer[v].id) = {}) => viewer[v].msg = NotFoundMsg

\* The presented token is stored for the id, whose note was never saved.
C5_Witness ==
    \E v \in Viewers :
        /\ Current(v) /\ RowsOf(viewer[v].id) = {}
        /\ StoredFor(viewer[v].token, viewer[v].id)
        /\ viewer[v].msg = NotFoundMsg

\* C6: with saves served one after another, the store holds at most one row per
\* note id; get_note of an id returns the title and content of the most recent
\* save_note for it, with updated_at not earlier than the time just before that
\* call; get_note of an id never saved returns None.
C6_SequentialSaves ==
    \A id \in NoteIds :
        /\ Cardinality(RowsOf(id)) <= 1
        /\ IF lastSave[id].saved
             THEN /\ get_note(id).id = id
                  /\ get_note(id).title = lastSave[id].title
                  /\ get_note(id).content = lastSave[id].content
                  /\ get_note(id).updated_at >= lastSave[id].before
             ELSE get_note(id) = NoNote

\* A viewer was shown one draft of a note whose row now holds the other draft:
\* the note was saved twice.
C6_Witness ==
    \E v \in Viewers :
        /\ viewer[v].msg = ShownMsg
        /\ lastSave[viewer[v].id].saved
        /\ viewer[v].content # get_note(viewer[v].id).content

\* C7: the stored updated_at of a note never decreases, also when the saves of
\* concurrent editor sessions interleave.
C7_UpdatedAtMonotone ==
    [][\A id \in NoteIds :
         RowsOf(id) # {} =>
            \A r \in RowsOf(id) : \A r2 \in RowsOf(id)' : r2.updated_at >= r.updated_at
      ]_vars

\* C8: when saves of one note id run concurrently, the stored row is the whole
\* (title, content, updated_at) triple of the save that committed last, and
\* what a reader gets is one save's title and content, never a mix of two.
OneDraft(title, content) ==
    \E d \in Drafts : d.title = title /\ d.content = content

C8_LastCommitWins ==
    /\ \A id \in NoteIds :
          lastSave[id].saved =>
             RowsOf(id) = {[id |-> id, title |-> lastSave[id].title,
                            content |-> lastSave[id].content,
                            updated_at |-> lastSave[id].now]}
    /\ \A id \in NoteIds : note_exists(id) => OneDraft(get_note(id).title, get_note(id).content)
    /\ \A v \in Viewers :
          viewer[v].msg = ShownMsg =>
             \E d \in Drafts : /\ viewer[v].content = d.content
                               /\ viewer[v].title = (IF d.title = "" THEN "Untitled" ELSE d.title)

\* Two sessions saved the same note and nothing else was done; the save that
\* read the clock first committed last.
C8_Witness ==
    \E id \in NoteIds :
        /\ \A s \in Editors : editor[s].editing_id = id /\ editor[s].outcome = "saved"
                                /\ editor[s].pc = "idle"
        /\ tokens = <<>>
        /\ clock = 2
        /\ lastSave[id].now = 1

\* C9: a token issued for a note before a save of the note committed is, on
\* every viewer run made after that commit and before any further write,
\* accepted, and the run shows the saved title and content.
IssuedBeforeLastSave(v) ==
    /\ Current(v)
    /\ lastSave[viewer[v].id].saved
    /\ \E i \in TokenRowsOf(viewer[v].id) :
          tokens[i].token = viewer[v].token /\ i <= lastSave[viewer[v].id].rows

C9_EditsPropagate ==
    \A v \in Viewers :
        IssuedBeforeLastSave(v) =>
            /\ viewer[v].msg = ShownMsg
            /\ viewer[v].title = lastSave[viewer[v].id].title
            /\ viewer[v].content = lastSave[viewer[v].id].content

\* C9 as amended: the run shows the saved content, and the saved title or
\* "Untitled" when the saved title is empty.
C9_EditsPropagateUntitled ==
    \A v \in Viewers :
        IssuedBeforeLastSave(v) =>
            /\ viewer[v].msg = ShownMsg
            /\ viewer[v].title = (IF lastSave[viewer[v].id].title = ""
                                    THEN "Untitled"
                                    ELSE lastSave[viewer[v].id].title)
            /\ viewer[v].content = lastSave[viewer[v].id].content

\* The token was issued, a draft with an empty title saved afterwards, and the
\* viewer run that followed shows it.
C9_Witness ==
    \E v \in Viewers :
        /\ IssuedBeforeLastSave(v)
        /\ lastSave[viewer[v].id].title = ""
        /\ viewer[v].title = "Untitled"
        /\ viewer[v].content = "x"

\* C10: every viewer run is authorized against the token rows of that moment:
\* a run that presents no token stored for the note is rejected once the note
\* has a token, whatever an earlier run of the same page was shown.
C10_FreshAuthorization ==
    \A v \in Viewers :
        (/\ Current(v)
         /\ RowsOf(viewer[v].id) # {}
         /\ TokenRowsOf(viewer[v].id) # {}
         /\ ~StoredFor(viewer[v].token, viewer[v].id)) =>
            viewer[v].msg = InvalidTokenMsg

\* The page was shown the note while it had no token and is rejected on the
\* run after the first token was created.
C10_Witness ==
    \E v \in Viewers :
        /\ Current(v)
        /\ viewer[v].prev = ShownMsg
        /\ viewer[v].msg = InvalidTokenMsg
        /\ ~StoredFor(viewer[v].token, viewer[v].id)

\* C11: a token row, once stored, is never removed or changed: every step
\* leaves each stored row in place with the same token, note_id and
\* created_at, so the token set of a note only grows.
C11_TokensKept ==
    [][/\ Len(tokens') >= Len(tokens)
       /\ \A i \in 1..Len(tokens) : tokens'[i] = tokens[i]
       /\ \A id \in NoteIds : TokenList(id) \subseteq TokenList(id)'
      ]_vars

\* The first token row was stored for a note that was saved afterwards, a
\* further token was generated after it, and the row is still there.
C11_Witness ==
    \E id \in NoteIds :
        /\ lastSave[id].saved /\ lastSave[id].rows >= 1
        /\ Len(tokens) >= 2
        /\ 1 \in TokenRowsOf(id)
        /\ RowsOf(id) # {}

\* C12: the note_id of every token row is the id of a stored note row,
\* whatever the editor sessions did, generating a token before the first Save
\* of the note included.
C12_TokensReferenceNotes ==
    \A i \in 1..Len(tokens) : RowsOf(tokens[i].note_id) # {}

\* C13: no step of a token generation (the cap check, the draw of the token
\* value and timestamp, the INSERT) creates or changes a note: the notes table
\* and the result of get_note for every id are the same after the step, also
\* when the note of the session does not exist.
C13_CreateTokenKeepsNotes ==
    [][\A s \in Editors :
         GenerateStep(s) =>
             /\ notes' = notes
             /\ \A id \in NoteIds : get_note(id)' = get_note(id)
      ]_vars

\* A session has just been given a token for a note that was never saved, and
\* the note still does not exist.
C13_Witness ==
    \E s \in Editors :
        /\ editor[s].outcome = "created"
        /\ TokenRowsOf(editor[s].editing_id) # {}
        /\ ~lastSave[editor[s].editing_id].saved
        /\ get_note(editor[s].editing_id) = NoNote

\* C14: no two rows of the tokens table hold the same token value, also after
\* the generator has produced a value that is already stored.
C14_TokensUnique ==
    \A i, j \in 1..Len(tokens) :
        tokens[i].token = tokens[j].token => i = j

\* The generator produced a stored value and the INSERT of it has just been
\* refused, with several rows stored.
C14_Witness ==
    \E s \in Editors : editor[s].outcome = "fault" /\ Len(tokens) >= 2

\* C15: get_tokens_for_note(id) returns exactly the (token, created_at) pairs
\* of the rows stored for id, one entry per row, in ascending order of
\* created_at, however the token generations interleaved; with no row stored
\* for id the result is empty.
C15_ListedByCreation ==
    \A id \in NoteIds :
        LET l == get_tokens_for_note(id)
        IN /\ Len(l) = Cardinality(TokenRowsOf(id))
           /\ {l[i] : i \in 1..Len(l)} =
                 {[token |-> tokens[k].token, created_at |-> tokens[k].created_at] :
                    k \in TokenRowsOf(id)}
           /\ \A i, j \in 1..Len(l) : i < j => l[i].created_at <= l[j].created_at

\* C16: a run of the viewer script, accepted or rejected, leaves every notes
\* row and every tokens row as it was, and a page that repeats its request
\* with no write since its last run shows the same message, title and content
\* again.  (The run of page v has the id and token of v's URL after the step
\* as its parameters.)
C16_ViewerReadsOnly ==
    [][\A v \in Viewers, id \in NoteIds \cup {NoId}, tok \in Tokens \cup {NoToken} :
         (/\ id = viewer'[v].id /\ tok = viewer'[v].token
          /\ ViewNote(v, id, tok)) =>
             /\ notes' = notes
             /\ tokens' = tokens
             /\ viewer[v].fresh =>
                   /\ viewer'[v].msg = viewer[v].msg
                   /\ viewer'[v].title = viewer[v].title
                   /\ viewer'[v].content = viewer[v].content
      ]_vars

\* A page has presented a stored token for a saved note at least twice and was
\* shown the note both times, the token row still there.
C16_Witness ==
    \E v \in Viewers :
        /\ Current(v)
        /\ viewer[v].prev = ShownMsg /\ viewer[v].msg = ShownMsg
        /\ StoredFor(viewer[v].token, viewer[v].id)
        /\ RowsOf(viewer[v].id) # {}

\* C17: once a save of a note id has committed, the note is there in every
\* later state: get_note(id) returns its row and note_exists(id) is true, also
\* in the states where another save of the same id is under way.
C17_NotesStay ==
    \A id \in NoteIds :
        lastSave[id].saved =>
            /\ note_exists(id)
            /\ get_note(id) # NoNote /\ get_note(id).id = id
            /\ Cardinality(RowsOf(id)) = 1

\* Two sessions are both in the middle of a save of a note that has been
\* saved before, and the note can be read.
C17_Witness ==
    \E s, e \in Editors :
        /\ s # e
        /\ editor[s].pc = "save" /\ editor[e].pc = "save"
        /\ editor[s].editing_id = editor[e].editing_id
        /\ lastSave[editor[s].editing_id].saved
        /\ note_exists(editor[s].editing_id)

\* C18: a step of a token generation in a session on note A, the refusal at
\* the cap included, leaves the token rows of every other note B as they were,
\* and with them the list get_tokens_for_note(B) and the row get_note(B): the
\* cap check of a Generate request for B and the answer to a viewer request
\* for B are computed from these two and nothing else.
C18_PerNote ==
    [][\A s \in Editors :
         GenerateStep(s) =>
             \A b \in NoteIds \ {editor[s].editing_id} :
                 /\ {tokens[i] : i \in TokenRowsOf(b)}'
                       = {tokens[i] : i \in TokenRowsOf(b)}
                 /\ get_tokens_for_note(b)' = get_tokens_for_note(b)
                 /\ get_note(b)' = get_note(b)
      ]_vars

\* A session has just been given a token for its note while another note,
\* saved and with a token of its own, is in the store.
C18_Witness ==
    \E s \in Editors, b \in NoteIds :
        /\ b # editor[s].editing_id
        /\ editor[s].outcome = "created"
        /\ Len(tokens) >= 2
        /\ tokens[Len(tokens)].note_id = editor[s].editing_id
        /\ TokenRowsOf(b) # {}
        /\ RowsOf(b) # {}

\* C19: the note id of an editor session is set by its first run, to the id
\* parameter of that request if it has one and to a generated id otherwise,
\* and no later run changes it, whatever id parameter the request carries; a
\* Save of the session writes the notes row of that id and no other, a token
\* generation of the session adds a tokens row for that id and no other.
C19_SessionNoteFixed ==
    [][\A s \in Editors :
         LET id == editor[s].editing_id
         IN /\ \A q \in NoteIds \cup {NoId}, g \in NoteIds :
                  StartSession(s, q, g) =>
                      editor'[s].editing_id = (IF q # NoId THEN q ELSE g)
            /\ editor[s].pc # "new" => editor'[s].editing_id = id
            /\ SaveCommit(s) =>
                  /\ \E r \in RowsOf(id)' : r.updated_at = editor[s].now
                  /\ \A b \in NoteIds \ {id} : RowsOf(b)' = RowsOf(b)
            /\ (GenInsert(s) /\ tokens' # tokens) =>
                  /\ Len(tokens') = Len(tokens) + 1
                  /\ tokens'[Len(tokens')].note_id = id
                  /\ \A b \in NoteIds \ {id} : TokenRowsOf(b)' = TokenRowsOf(b)
      ]_vars

\* The latest Save request of a session carried the id of another note than
\* the session's, and the save went to the session's note: that note is
\* stored, the other one was never written.
C19_Witness ==
    \E s \in Editors :
        /\ editor[s].outcome = "saved"
        /\ editor[s].foreign_q \notin {NoId, editor[s].editing_id}
        /\ lastSave[editor[s].editing_id].saved
        /\ RowsOf(editor[s].editing_id) # {}
        /\ RowsOf(editor[s].foreign_q) = {}
        /\ ~lastSave[editor[s].foreign_q].saved
====
